---- MODULE Spec2Model ----
(***************************************************************************)
(* The gdb command `heapdump` of scripts/gdb/custom_commands.py: a walk    *)
(* over the kernel heap's size-class table and the partial-slab list of    *)
(* each size class, reading target memory and printing one entry per slab. *)
(*                                                                         *)
(* Target memory is a byte memory.  Every value the command reads is       *)
(* decoded from the bytes it reads; a read of a byte outside the mapped    *)
(* ranges raises gdb.MemoryError, which nothing in the command catches.    *)
(***************************************************************************)
EXTENDS Integers, Sequences, FiniteSets, TLC

VARIABLES
    memory,                 \* target memory: [mapped |-> set of <<lo, hi>>, bytes |-> addr :> byte]
    resolvable,             \* names the host's symbol table can resolve
    pc,                     \* position of the command
    error,                  \* the exception that ended the command, or "none"
    size_class_idx,         \* invoke: loop variable
    metadata,               \* invoke: SizeClassMeta of the current size class
    cur_slab_addr,          \* _print_slab_list: cur_slab_addr
    bitmap_size,            \* _print_slab_list: bitmap_size
    allocated_objs,         \* _print_slab_list: allocated_objs
    bitmap,                 \* _print_slab_list: bitmap (the bytes read)
    bitmap_allocated_objs,  \* _print_slab_list: bitmap_allocated_objs
    out,                    \* the lines printed so far
    list_reads,             \* <<addr, len>> of every read attempted by the current _print_slab_list call
    cib_b,                  \* count_int_bits: b
    cib_count,              \* count_int_bits: count
    held                    \* counter and bitmap population the target's slabs have held so far

vars == <<memory, resolvable, pc, error, size_class_idx, metadata, cur_slab_addr,
          bitmap_size, allocated_objs, bitmap, bitmap_allocated_objs, out, list_reads,
          cib_b, cib_count, held>>

(***************************************************************************)
(* Program constant.                                                       *)
(***************************************************************************)
SIZE_CLASS_COUNT == 25

(***************************************************************************)
(* Layout the host's type system supplies (gdb.lookup_type, field access   *)
(* by name, pointer arithmetic in units of the pointee).                   *)
(***************************************************************************)
ALLOCATOR == 1024          \* address of kernel::mm::heap::ALLOCATOR
SizeClassSize == 32        \* sizeof(SizeClass): stride of allocator_addr[i]
SizeOff == 0               \* offset of meta.size
SlabOrderOff == 8          \* offset of meta.slab_order
ObjectsPerSlabOff == 16    \* offset of meta.objects_per_slab
HeadOff == 24              \* offset of inner.data.value.partial_slabs.head
SlabHeaderSize == 16       \* sizeof(SlabHeader): slab_ptr + 1
NextOff == 0               \* offset of link.next
AllocatedOff == 8          \* offset of allocated.value.value
WordSize == 8              \* bytes of a u64 / usize field

(***************************************************************************)
(* Bounds of the model.                                                    *)
(***************************************************************************)
NumSlabs == 2              \* slabs on the list of the focus size class
MaxObjs == 9               \* largest objects_per_slab of an image
MaxAlloc == 2              \* largest stored allocated counter of an image
MaxPureObjs == 64          \* largest objects_per_slab given to line 40 alone
MaxBitmapLen == 3          \* longest byte sequence given to count_set_bits alone
MaxAllocatorSteps == 2     \* most steps the live allocator takes during one invocation
MaxSlots == 2              \* the slots 0 .. MaxSlots-1 of a slab are taken and given back

(***************************************************************************)
(* Memory accessor.                                                        *)
(***************************************************************************)
Byte(mem, a) == IF a \in DOMAIN mem.bytes THEN mem.bytes[a] ELSE 0

Readable(mem, a, n) ==
    \A i \in 0 .. n - 1 : \E r \in mem.mapped : r[1] <= a + i /\ a + i <= r[2]

\* inferior.read_memory(addr, n): the n bytes at addr, lowest address first
read_memory(mem, a, n) == [i \in 1 .. n |-> Byte(mem, a + i - 1)]

\* int.from_bytes(bs, "little")
RECURSIVE from_bytes_little(_)
from_bytes_little(bs) ==
    IF bs = <<>> THEN 0 ELSE Head(bs) + 256 * from_bytes_little(Tail(bs))

read_u64(mem, a) == from_bytes_little(read_memory(mem, a, WordSize))

\* the memory with byte v at address a (a zero byte is not kept in `bytes`)
StoreByte(mem, a, v) ==
    [mem EXCEPT !.bytes =
        [x \in (IF v = 0 THEN DOMAIN mem.bytes \ {a} ELSE DOMAIN mem.bytes \cup {a}) |->
            IF x = a THEN v ELSE mem.bytes[x]]]

(***************************************************************************)
(* count_int_bits, count_set_bits.                                         *)
(***************************************************************************)
RECURSIVE BitAnd(_, _)
BitAnd(a, b) ==
    IF a = 0 \/ b = 0 THEN 0
    ELSE (a % 2) * (b % 2) + 2 * BitAnd(a \div 2, b \div 2)

\* b >>= 1 in place of clearing the lowest set bit
ShiftRightOne(b) == b \div 2

\* line 22: b &= b - 1
ClearLowestBit(b) == BitAnd(b, b - 1)

RECURSIVE count_int_bits(_)
count_int_bits(b) == IF b = 0 THEN 0 ELSE 1 + count_int_bits(ClearLowestBit(b))

\* the count stops at the first zero byte
RECURSIVE CountSetBitsUntilZero(_)
CountSetBitsUntilZero(bs) ==
    IF bs = <<>> \/ Head(bs) = 0 THEN 0
    ELSE count_int_bits(Head(bs)) + CountSetBitsUntilZero(Tail(bs))

RECURSIVE count_set_bits(_)
count_set_bits(bs) ==
    IF bs = <<>> THEN 0 ELSE count_int_bits(Head(bs)) + count_set_bits(Tail(bs))

(***************************************************************************)
(* Memory images the command is run on.  The size-class table lies at      *)
(* ALLOCATOR; the partial-slab list of the size class `focus` has `len`    *)
(* slabs and ends in `term`; every other list is empty, or, with `rest`,   *)
(* holds the one slab RestSlab.                                            *)
(***************************************************************************)
SlabAddr(n) == 64 * n
SlabEnd(n) == SlabAddr(n) + 31
SizeClassAddr(i) == ALLOCATOR + i * SizeClassSize
RestSlab == SlabAddr(NumSlabs + 2)

FocusClasses == {0, SIZE_CLASS_COUNT - 1}
ObjsChoices == {0, MaxObjs - 1, MaxObjs}
Terms == {"null", "unlinked", "wild", "unmapped", "cycle"}
Patterns == {"empty", "low", "spread"}
Cuts == {"none", "bitmap", "table"}

\* byte j (1-based) of a slab's bitmap
PatternByte(pattern, j) ==
    CASE pattern = "empty" -> 0
      [] pattern = "low" -> IF j = 1 THEN 3 ELSE 0
      [] pattern = "spread" -> IF j = 1 THEN 1 ELSE 128

Images ==
    { p \in [focus : FocusClasses, objs : ObjsChoices, len : 0 .. NumSlabs,
             term : Terms, alloc0 : 0 .. MaxAlloc, pattern : Patterns, cut : Cuts,
             rest : BOOLEAN] :
        /\ p.term = "cycle" => p.len >= 1
        /\ p.len = 0 => p.alloc0 = 0 /\ p.pattern = "empty"
        /\ p.cut = "bitmap" => p.term = "null" /\ p.len >= 1
        /\ p.cut = "table" => p.term = "null" /\ p.len = 0 /\ p.objs = 0 /\ ~p.rest }

TermLink(p) ==
    CASE p.term = "null" -> 0
      [] p.term = "unlinked" -> 1
      [] p.term = "wild" -> 3
      [] p.term = "unmapped" -> SlabAddr(p.len + 1)
      [] p.term = "cycle" -> SlabAddr(1)

LinkOf(p, n) == IF n < p.len THEN SlabAddr(n + 1) ELSE TermLink(p)
AllocOf(p, n) == (p.alloc0 + n - 1) % (MaxAlloc + 1)

\* the u64 fields of the image, as <<address, value>>
ImageWords(p) ==
    UNION { { <<SizeClassAddr(i) + SizeOff, 16 * (i + 1)>>,
              <<SizeClassAddr(i) + SlabOrderOff, i \div 8>>,
              <<SizeClassAddr(i) + ObjectsPerSlabOff, p.objs>>,
              <<SizeClassAddr(i) + HeadOff,
                IF i = p.focus THEN LinkOf(p, 0) ELSE IF p.rest THEN RestSlab ELSE 0>> }
            : i \in 0 .. SIZE_CLASS_COUNT - 1 }
    \cup (IF p.rest
          THEN { <<RestSlab + NextOff, 0>>, <<RestSlab + AllocatedOff, 2>> }
          ELSE {})
    \cup UNION { { <<SlabAddr(n) + NextOff, LinkOf(p, n)>>,
                   <<SlabAddr(n) + AllocatedOff, AllocOf(p, n)>> } : n \in 1 .. p.len }

RECURSIVE ByteOfWord(_, _)
ByteOfWord(v, k) == IF k = 0 THEN v % 256 ELSE ByteOfWord(v \div 256, k - 1)

ImageCells(p) ==
    { <<w[1] + k, ByteOfWord(w[2], k)>> : w \in ImageWords(p), k \in 0 .. WordSize - 1 }
    \cup { <<SlabAddr(n) + SlabHeaderSize + j - 1, PatternByte(p.pattern, j)>> :
             n \in (1 .. p.len) \cup (IF p.rest THEN {NumSlabs + 2} ELSE {}),
             j \in 1 .. (MaxObjs + 7) \div 8 }

ImageMemory(p) ==
    LET cells == { c \in ImageCells(p) : c[2] # 0 }
        tableEnd == IF p.cut = "table" THEN SizeClassAddr(p.focus) + HeadOff - 1
                    ELSE SizeClassAddr(SIZE_CLASS_COUNT) - 1
    IN  [ mapped |->
            { <<ALLOCATOR, tableEnd>> }
            \cup { <<SlabAddr(n),
                     IF p.cut = "bitmap" /\ n = p.len
                     THEN SlabAddr(n) + SlabHeaderSize - 1 ELSE SlabEnd(n)>> :
                   n \in 1 .. p.len }
            \cup (IF p.rest THEN { <<RestSlab, SlabEnd(NumSlabs + 2)>> } ELSE {}),
          bytes |-> [ a \in { c[1] : c \in cells } |->
                        (CHOOSE c \in cells : c[1] = a)[2] ] ]

Names == {"kernel::mm::heap::SizeClass", "kernel::mm::heap::ALLOCATOR",
          "kernel::mm::heap::SlabHeader"}
ResolveChoices == {Names} \cup { Names \ {n} : n \in Names }

(***************************************************************************)
(* Output.  `idx` is the index of the size class a line belongs to; the    *)
(* printed text does not show it.  A list of at most NumSlabs slabs that   *)
(* ends prints at most 2 * NumSlabs + 3 lines; the lines of one size class *)
(* past MaxClassLines are dropped, so that a walk that never ends has      *)
(* finitely many states.                                                   *)
(***************************************************************************)
MaxClassLines == 2 * NumSlabs + 4

LinesIn(o, i) == SelectSeq(o, LAMBDA l : l.idx = i)

Emit(o, line) ==
    IF Len(LinesIn(o, line.idx)) < MaxClassLines THEN Append(o, line) ELSE o

ClassLine(i, md) ==
    [kind |-> "class", idx |-> i, size |-> md.size, slab_order |-> md.slab_order]
SlabLine(i, addr, allocated, in_bitmap) ==
    [kind |-> "slab", idx |-> i, addr |-> addr, allocated |-> allocated,
     in_bitmap |-> in_bitmap]
DisagreeLine(i) == [kind |-> "disagree", idx |-> i]
UnlinkedLine(i) == [kind |-> "unlinked", idx |-> i]
BlankLine(i) == [kind |-> "blank", idx |-> i]

NoMeta == [size |-> 0, slab_order |-> 0, objects_per_slab |-> 0]

\* the state in which gdb calls invoke, on one of the images `images` and with
\* one of the symbol tables `tables`
InitOn(images, tables) ==
    /\ \E p \in images : memory = ImageMemory(p)
    /\ resolvable \in tables
    /\ pc = "invoke"
    /\ error = "none"
    /\ size_class_idx = 0
    /\ metadata = NoMeta
    /\ cur_slab_addr = 0
    /\ bitmap_size = 0
    /\ allocated_objs = 0
    /\ bitmap = <<>>
    /\ bitmap_allocated_objs = 0
    /\ out = <<>>
    /\ list_reads = {}
    /\ cib_b = 0
    /\ cib_count = 0

Init == InitOn(Images, ResolveChoices) /\ held = <<>>

(***************************************************************************)
(* An exception nothing catches ends the command.                          *)
(***************************************************************************)
\* an exception that is swallowed: the loop over the size classes goes on
RaiseCaught(kind) ==
    /\ pc' = "for"
    /\ error' = kind

\* lines 14-15, 50, 52, 62-65, 41: gdb.MemoryError / gdb.error leave invoke
Raise(kind) ==
    /\ pc' = "error"
    /\ error' = kind

\* rounding down instead of up
BitmapSizeFloor(objects_per_slab) == objects_per_slab \div 8

\* every unaligned link taken for the marker
IsUnlinkedUnaligned(addr) == addr % 8 # 0

\* the marker not recognised
IsUnlinkedNever(addr) == FALSE

\* only a counter above the bitmap's count reported
DisagreeAbove(allocated, in_bitmap) == allocated > in_bitmap

\* the link read at the counter's offset
NextAddrAtCounter(slab) == slab + AllocatedOff

\* line 40
BitmapSize(objects_per_slab) == (objects_per_slab + 7) \div 8

\* line 43: the loop condition
IsNull(addr) == addr = 0

\* line 44
IsUnlinked(addr) == addr = 1

\* line 57
Disagree(allocated, in_bitmap) == allocated # in_bitmap

\* lines 48-50: where slab["allocated"]["value"]["value"] is read
AllocatedAddr(slab) == slab + AllocatedOff

\* line 51: int(slab_ptr + 1)
\* the bitmap taken to start at the second word of the header
BitmapAddrInHeader(slab) == slab + WordSize

BitmapAddr(slab) == slab + SlabHeaderSize

\* line 59: int(slab["link"]["next"].address)
NextAddr(slab) == slab + NextOff

\* the symbol's lookup result used unchecked
ResolveTypeOnly ==
    /\ pc = "invoke"
    /\ IF "kernel::mm::heap::SizeClass" \in resolvable
       THEN /\ pc' = "for"
            /\ UNCHANGED error
       ELSE Raise("LookupError")
    /\ UNCHANGED <<cib_b, cib_count, held>>
    /\ UNCHANGED <<memory, resolvable, size_class_idx, metadata, cur_slab_addr,
                   bitmap_size, allocated_objs, bitmap, bitmap_allocated_objs, out,
                   list_reads>>

\* invoke, lines 62-67: resolve the size-class type and the allocator symbol
Resolve ==
    /\ pc = "invoke"
    /\ IF "kernel::mm::heap::SizeClass" \in resolvable
          /\ "kernel::mm::heap::ALLOCATOR" \in resolvable
       THEN /\ pc' = "for"
            /\ UNCHANGED error
       ELSE Raise("LookupError")
    /\ UNCHANGED <<cib_b, cib_count, held>>
    /\ UNCHANGED <<memory, resolvable, size_class_idx, metadata, cur_slab_addr,
                   bitmap_size, allocated_objs, bitmap, bitmap_allocated_objs, out,
                   list_reads>>

\* invoke, lines 68-80: decode the size class, read its list head, print its header
LoopHead ==
    /\ pc = "for"
    /\ LET base == SizeClassAddr(size_class_idx)
       IN  IF /\ Readable(memory, base + SizeOff, WordSize)
              /\ Readable(memory, base + SlabOrderOff, WordSize)
              /\ Readable(memory, base + ObjectsPerSlabOff, WordSize)
              /\ Readable(memory, base + HeadOff, WordSize)
           THEN LET md == [size |-> read_u64(memory, base + SizeOff),
                           slab_order |-> read_u64(memory, base + SlabOrderOff),
                           objects_per_slab |-> read_u64(memory, base + ObjectsPerSlabOff)]
                IN  /\ metadata' = md
                    /\ cur_slab_addr' = read_u64(memory, base + HeadOff)
                    /\ out' = Emit(out, ClassLine(size_class_idx, md))
                    /\ pc' = "call"
                    /\ UNCHANGED error
           ELSE /\ Raise("MemoryError")
                /\ UNCHANGED <<metadata, cur_slab_addr, out>>
    /\ UNCHANGED <<cib_b, cib_count, held>>
    /\ UNCHANGED <<memory, resolvable, size_class_idx, bitmap_size, allocated_objs,
                   bitmap, bitmap_allocated_objs, list_reads>>

\* _print_slab_list, lines 40-42: bitmap size, slab-header type
ListEnter ==
    /\ pc = "call"
    /\ bitmap_size' = BitmapSize(metadata.objects_per_slab)
    /\ list_reads' = {}
    /\ IF "kernel::mm::heap::SlabHeader" \in resolvable
       THEN /\ pc' = "while"
            /\ UNCHANGED error
       ELSE Raise("LookupError")
    /\ UNCHANGED <<cib_b, cib_count, held>>
    /\ UNCHANGED <<memory, resolvable, size_class_idx, metadata, cur_slab_addr,
                   allocated_objs, bitmap, bitmap_allocated_objs, out>>

\* the list is left (line 43 false, or the break of line 46): line 82, next index
ListReturn(o) ==
    /\ out' = Emit(o, BlankLine(size_class_idx))
    /\ size_class_idx' = size_class_idx + 1
    /\ pc' = IF size_class_idx + 1 < SIZE_CLASS_COUNT THEN "for" ELSE "done"

\* the marker ends the whole command instead of the one list
WhileCheckMarkerEndsRun ==
    /\ pc = "while"
    /\ IF IsNull(cur_slab_addr)
       THEN ListReturn(out)
       ELSE IF IsUnlinked(cur_slab_addr)
            THEN /\ out' = Emit(out, UnlinkedLine(size_class_idx))
                 /\ pc' = "done"
                 /\ UNCHANGED size_class_idx
            ELSE /\ pc' = "slab"
                 /\ UNCHANGED <<out, size_class_idx>>
    /\ UNCHANGED <<cib_b, cib_count, held>>
    /\ UNCHANGED <<memory, resolvable, error, metadata, cur_slab_addr, bitmap_size,
                   allocated_objs, bitmap, bitmap_allocated_objs, list_reads>>

\* _print_slab_list, lines 43-46
WhileCheck ==
    /\ pc = "while"
    /\ IF IsNull(cur_slab_addr)
       THEN ListReturn(out)
       ELSE IF IsUnlinked(cur_slab_addr)
            THEN ListReturn(Emit(out, UnlinkedLine(size_class_idx)))
            ELSE /\ pc' = "slab"
                 /\ UNCHANGED <<out, size_class_idx>>
    /\ UNCHANGED <<cib_b, cib_count, held>>
    /\ UNCHANGED <<memory, resolvable, error, metadata, cur_slab_addr, bitmap_size,
                   allocated_objs, bitmap, bitmap_allocated_objs, list_reads>>

\* the counter kept from the slab before instead of read from this one
ReadAllocatedCached ==
    /\ pc = "slab"
    /\ list_reads' = list_reads \cup {<<AllocatedAddr(cur_slab_addr), WordSize>>}
    /\ IF Readable(memory, AllocatedAddr(cur_slab_addr), WordSize)
       THEN /\ pc' = "bitmap"
            /\ UNCHANGED <<error, allocated_objs>>
       ELSE /\ Raise("MemoryError")
            /\ UNCHANGED allocated_objs
    /\ UNCHANGED <<cib_b, cib_count, held>>
    /\ UNCHANGED <<memory, resolvable, size_class_idx, metadata, cur_slab_addr,
                   bitmap_size, bitmap, bitmap_allocated_objs, out>>

\* _print_slab_list, lines 48-50: the stored counter
ReadAllocated ==
    /\ pc = "slab"
    /\ list_reads' = list_reads \cup {<<AllocatedAddr(cur_slab_addr), WordSize>>}
    /\ IF Readable(memory, AllocatedAddr(cur_slab_addr), WordSize)
       THEN /\ allocated_objs' = read_u64(memory, AllocatedAddr(cur_slab_addr))
            /\ pc' = "bitmap"
            /\ UNCHANGED error
       ELSE /\ Raise("MemoryError")
            /\ UNCHANGED allocated_objs
    /\ UNCHANGED <<cib_b, cib_count, held>>
    /\ UNCHANGED <<memory, resolvable, size_class_idx, metadata, cur_slab_addr,
                   bitmap_size, bitmap, bitmap_allocated_objs, out>>

\* the entry printed before the bitmap has been read
ReadBitmapEntryFirst ==
    /\ pc = "bitmap"
    /\ list_reads' = list_reads \cup {<<BitmapAddr(cur_slab_addr), bitmap_size>>}
    /\ IF Readable(memory, BitmapAddr(cur_slab_addr), bitmap_size)
       THEN LET bs == read_memory(memory, BitmapAddr(cur_slab_addr), bitmap_size)
                n == count_set_bits(bs)
                entry == Emit(out, SlabLine(size_class_idx, cur_slab_addr,
                                            allocated_objs, n))
            IN  /\ bitmap' = bs
                /\ bitmap_allocated_objs' = n
                /\ out' = IF Disagree(allocated_objs, n)
                          THEN Emit(entry, DisagreeLine(size_class_idx))
                          ELSE entry
                /\ pc' = "next"
                /\ UNCHANGED error
       ELSE /\ Raise("MemoryError")
            /\ out' = Emit(out, SlabLine(size_class_idx, cur_slab_addr,
                                         allocated_objs, 0))
            /\ UNCHANGED <<bitmap, bitmap_allocated_objs>>
    /\ UNCHANGED <<cib_b, cib_count, held>>
    /\ UNCHANGED <<memory, resolvable, size_class_idx, metadata, cur_slab_addr,
                   bitmap_size, allocated_objs>>

\* _print_slab_list, lines 51-58: the bitmap, its count, the slab's entry
\* (a read of bitmap_size = 0 bytes returns no bytes and touches no address)
ReadBitmap ==
    /\ pc = "bitmap"
    /\ list_reads' = list_reads \cup {<<BitmapAddr(cur_slab_addr), bitmap_size>>}
    /\ IF Readable(memory, BitmapAddr(cur_slab_addr), bitmap_size)
       THEN LET bs == read_memory(memory, BitmapAddr(cur_slab_addr), bitmap_size)
                n == count_set_bits(bs)
                entry == Emit(out, SlabLine(size_class_idx, cur_slab_addr,
                                            allocated_objs, n))
            IN  /\ bitmap' = bs
                /\ bitmap_allocated_objs' = n
                /\ out' = IF Disagree(allocated_objs, n)
                          THEN Emit(entry, DisagreeLine(size_class_idx))
                          ELSE entry
                /\ pc' = "next"
                /\ UNCHANGED error
       ELSE /\ Raise("MemoryError")
            /\ UNCHANGED <<bitmap, bitmap_allocated_objs, out>>
    /\ UNCHANGED <<cib_b, cib_count, held>>
    /\ UNCHANGED <<memory, resolvable, size_class_idx, metadata, cur_slab_addr,
                   bitmap_size, allocated_objs>>

\* the slab just decoded is marked as visited in the target
ReadNextMarkVisited ==
    /\ pc = "next"
    /\ list_reads' = list_reads \cup {<<NextAddr(cur_slab_addr), WordSize>>}
    /\ IF Readable(memory, NextAddr(cur_slab_addr), WordSize)
       THEN /\ cur_slab_addr' = read_u64(memory, NextAddr(cur_slab_addr))
            /\ memory' = StoreByte(memory, AllocatedAddr(cur_slab_addr) + 1, 1)
            /\ pc' = "while"
            /\ UNCHANGED error
       ELSE /\ Raise("MemoryError")
            /\ UNCHANGED <<cur_slab_addr, memory>>
    /\ UNCHANGED <<cib_b, cib_count, held>>
    /\ UNCHANGED <<resolvable, size_class_idx, metadata, bitmap_size,
                   allocated_objs, bitmap, bitmap_allocated_objs, out>>

\* the link read but cur_slab_addr not advanced
ReadNextNoAdvance ==
    /\ pc = "next"
    /\ list_reads' = list_reads \cup {<<NextAddr(cur_slab_addr), WordSize>>}
    /\ IF Readable(memory, NextAddr(cur_slab_addr), WordSize)
       THEN /\ pc' = "while"
            /\ UNCHANGED <<error, cur_slab_addr>>
       ELSE /\ Raise("MemoryError")
            /\ UNCHANGED cur_slab_addr
    /\ UNCHANGED <<cib_b, cib_count, held>>
    /\ UNCHANGED <<memory, resolvable, size_class_idx, metadata, bitmap_size,
                   allocated_objs, bitmap, bitmap_allocated_objs, out>>

\* a disagreeing slab ends the list
ReadNextStopOnDisagree ==
    /\ pc = "next"
    /\ list_reads' = list_reads \cup {<<NextAddr(cur_slab_addr), WordSize>>}
    /\ IF Readable(memory, NextAddr(cur_slab_addr), WordSize)
       THEN /\ cur_slab_addr' = IF Disagree(allocated_objs, bitmap_allocated_objs)
                                THEN 0
                                ELSE read_u64(memory, NextAddr(cur_slab_addr))
            /\ pc' = "while"
            /\ UNCHANGED error
       ELSE /\ Raise("MemoryError")
            /\ UNCHANGED cur_slab_addr
    /\ UNCHANGED <<cib_b, cib_count, held>>
    /\ UNCHANGED <<memory, resolvable, size_class_idx, metadata, bitmap_size,
                   allocated_objs, bitmap, bitmap_allocated_objs, out>>

\* _print_slab_list, line 59: follow link.next
ReadNext ==
    /\ pc = "next"
    /\ list_reads' = list_reads \cup {<<NextAddr(cur_slab_addr), WordSize>>}
    /\ IF Readable(memory, NextAddr(cur_slab_addr), WordSize)
       THEN /\ cur_slab_addr' = read_u64(memory, NextAddr(cur_slab_addr))
            /\ pc' = "while"
            /\ UNCHANGED error
       ELSE /\ Raise("MemoryError")
            /\ UNCHANGED cur_slab_addr
    /\ UNCHANGED <<cib_b, cib_count, held>>
    /\ UNCHANGED <<memory, resolvable, size_class_idx, metadata, bitmap_size,
                   allocated_objs, bitmap, bitmap_allocated_objs, out>>

Next ==
    \/ Resolve
    \/ LoopHead
    \/ ListEnter
    \/ WhileCheck
    \/ ReadAllocated
    \/ ReadBitmap
    \/ ReadNext

Spec == Init /\ [][Next]_vars

\* Line 40 alone, on every objects_per_slab up to MaxPureObjs: _print_slab_list
\* is entered with a size class of that capacity.
SizeInit ==
    /\ memory = [mapped |-> {}, bytes |-> <<>>]
    /\ resolvable = Names
    /\ pc = "call"
    /\ error = "none"
    /\ size_class_idx = 0
    /\ \E k \in 0 .. MaxPureObjs :
          metadata = [size |-> 16, slab_order |-> 0, objects_per_slab |-> k]
    /\ cur_slab_addr = 0
    /\ bitmap_size = 0
    /\ allocated_objs = 0
    /\ bitmap = <<>>
    /\ bitmap_allocated_objs = 0
    /\ out = <<>>
    /\ list_reads = {}
    /\ cib_b = 0
    /\ cib_count = 0
    /\ held = <<>>

SizeSpec == SizeInit /\ [][ListEnter]_vars

(***************************************************************************)
(* count_set_bits and count_int_bits alone.  count_set_bits is called on a *)
(* byte sequence (line 53); count_int_bits is called on one byte of a      *)
(* bitmap (line 27), kept in `bitmap`, and its loop is run step by step.   *)
(***************************************************************************)
ByteChoices == {0, 1, 2, 3, 128, 255}
BitmapChoices == UNION { [1 .. n -> ByteChoices] : n \in 0 .. MaxBitmapLen }

BitsInit ==
    /\ memory = [mapped |-> {}, bytes |-> <<>>]
    /\ resolvable = Names
    /\ error = "none"
    /\ size_class_idx = 0
    /\ metadata = NoMeta
    /\ cur_slab_addr = 0
    /\ bitmap_size = 0
    /\ allocated_objs = 0
    /\ bitmap_allocated_objs = 0
    /\ out = <<>>
    /\ list_reads = {}
    /\ held = <<>>
    /\ cib_count = 0
    /\ \/ /\ pc = "count_set_bits"
          /\ bitmap \in BitmapChoices
          /\ cib_b = 0
       \/ /\ pc = "count_int_bits"
          /\ \E v \in 0 .. 255 : bitmap = <<v>> /\ cib_b = v

\* count_set_bits, lines 26-27
CountSetBits ==
    /\ pc = "count_set_bits"
    /\ bitmap_allocated_objs' = count_set_bits(bitmap)
    /\ pc' = "count_set_bits_return"
    /\ UNCHANGED <<memory, resolvable, error, size_class_idx, metadata, cur_slab_addr,
                   bitmap_size, allocated_objs, bitmap, out, list_reads, cib_b,
                   cib_count, held>>

\* count_int_bits, lines 20-22: one iteration of the loop
CountIntBitsStep ==
    /\ pc = "count_int_bits"
    /\ cib_b # 0
    /\ cib_count' = cib_count + 1
    /\ cib_b' = ClearLowestBit(cib_b)
    /\ UNCHANGED <<memory, resolvable, pc, error, size_class_idx, metadata,
                   cur_slab_addr, bitmap_size, allocated_objs, bitmap,
                   bitmap_allocated_objs, out, list_reads, held>>

\* count_int_bits, lines 20 and 23: the loop ends, count is returned
CountIntBitsReturn ==
    /\ pc = "count_int_bits"
    /\ cib_b = 0
    /\ pc' = "count_int_bits_return"
    /\ UNCHANGED <<memory, resolvable, error, size_class_idx, metadata, cur_slab_addr,
                   bitmap_size, allocated_objs, bitmap, bitmap_allocated_objs, out,
                   list_reads, cib_b, cib_count, held>>

BitsNext ==
    \/ CountSetBits
    \/ CountIntBitsStep
    \/ CountIntBitsReturn

BitsSpec == BitsInit /\ [][BitsNext]_vars

\* The host runs the command's next statement whenever there is one.  Runs to
\* the end are followed on the images whose other lists are empty, with every
\* name resolvable.
FairInit == InitOn({ p \in Images : ~p.rest }, {Names}) /\ held = <<>>

FairSpec == FairInit /\ [][Next]_vars /\ WF_vars(Next)

TypeOK ==
    /\ pc \in {"invoke", "for", "call", "while", "slab", "bitmap", "next", "done", "error"}
    /\ error \in {"none", "LookupError", "MemoryError"}
    /\ size_class_idx \in 0 .. SIZE_CLASS_COUNT
    /\ Len(out) <= SIZE_CLASS_COUNT * MaxClassLines

(***************************************************************************)
(* What the memory holds, read off the memory itself.                      *)
(***************************************************************************)
HeadOf(i) == read_u64(memory, SizeClassAddr(i) + HeadOff)
ObjsOf(i) == read_u64(memory, SizeClassAddr(i) + ObjectsPerSlabOff)

\* ceil(k / 8) bytes of bitmap
BitmapBytesOf(i) == CHOOSE n \in 0 .. ObjsOf(i) : 8 * n >= ObjsOf(i) /\ 8 * (n - 1) < ObjsOf(i)

\* a slab whose counter, bitmap of n bytes and link can all be read
SlabReadable(a, n) ==
    /\ Readable(memory, a + AllocatedOff, WordSize)
    /\ Readable(memory, a + SlabHeaderSize, n)
    /\ Readable(memory, a + NextOff, WordSize)

\* The list that starts at link a: its slabs in link order, and how it ends:
\* "null" (link 0), "unlinked" (link 1), "cycle" (a link to an earlier slab of
\* the list), "unreadable" (any other link that is no readable slab).
RECURSIVE ListFrom(_, _, _)
ListFrom(a, seen, n) ==
    IF a = 0 THEN [nodes |-> <<>>, end |-> "null"]
    ELSE IF a = 1 THEN [nodes |-> <<>>, end |-> "unlinked"]
    ELSE IF a \in seen THEN [nodes |-> <<>>, end |-> "cycle"]
    ELSE IF ~SlabReadable(a, n) THEN [nodes |-> <<>>, end |-> "unreadable"]
    ELSE LET rest == ListFrom(read_u64(memory, a + NextOff), seen \cup {a}, n)
         IN  [nodes |-> <<a>> \o rest.nodes, end |-> rest.end]

ListOf(i) == ListFrom(HeadOf(i), {}, BitmapBytesOf(i))

\* number of 1 bits of a byte, bit by bit
PopCount(b) == Cardinality({ k \in 0 .. 7 : (b \div (2 ^ k)) % 2 = 1 })

RECURSIVE SumPopCount(_, _)
SumPopCount(a, n) ==
    IF n = 0 THEN 0 ELSE PopCount(Byte(memory, a + n - 1)) + SumPopCount(a, n - 1)

StoredCount(a) == read_u64(memory, a + AllocatedOff)
BitmapCount(a, i) == SumPopCount(a + SlabHeaderSize, BitmapBytesOf(i))

(***************************************************************************)
(* What was printed.                                                       *)
(***************************************************************************)
LinesOf(i) == LinesIn(out, i)
SlabLinesOf(i) == SelectSeq(out, LAMBDA l : l.idx = i /\ l.kind = "slab")
HeaderLines == SelectSeq(out, LAMBDA l : l.kind = "class")
HasLine(i, kind) == \E k \in 1 .. Len(out) : out[k].idx = i /\ out[k].kind = kind
AddrsOf(lines) == [k \in 1 .. Len(lines) |-> lines[k].addr]
IsPrefix(s, t) == Len(s) <= Len(t) /\ \A k \in 1 .. Len(s) : s[k] = t[k]

Stopped == pc \in {"done", "error"}
\* the command is inside _print_slab_list's loop for size class size_class_idx
InList == pc \in {"while", "slab", "bitmap", "next"}
\* the walk of size class size_class_idx - 1 has just returned
Returned == pc \in {"for", "done"} /\ size_class_idx > 0
\* a read of the current list raised MemoryError
ListReadFailed ==
    pc = "error" /\ error = "MemoryError" /\ HasLine(size_class_idx, "class")

(***************************************************************************)
(* C1.  A list of L readable slabs that ends in the null link gives       *)
(* exactly L slab entries, the i-th for the i-th slab in link order, and   *)
(* no "unlinked" flag: while the list is walked the entries printed are a  *)
(* prefix of its slabs, no read of it fails, and when the walk returns     *)
(* they are all of its slabs.                                              *)
(***************************************************************************)
NullListReported(i, finished) ==
    LET l == ListOf(i)
        addrs == AddrsOf(SlabLinesOf(i))
    IN  l.end = "null" =>
          /\ ~HasLine(i, "unlinked")
          /\ IsPrefix(addrs, l.nodes)
          /\ finished => addrs = l.nodes

C1_NullTerminatedList ==
    /\ InList => NullListReported(size_class_idx, FALSE)
    /\ Returned => NullListReported(size_class_idx - 1, TRUE)
    /\ ListReadFailed => ListOf(size_class_idx).end # "null"

C1_Witness ==
    /\ Returned
    /\ ListOf(size_class_idx - 1).end = "null"
    /\ Len(ListOf(size_class_idx - 1).nodes) = NumSlabs
    /\ Len(SlabLinesOf(size_class_idx - 1)) = NumSlabs

(***************************************************************************)
(* C2.  A list whose k-th link is the marker 1 gives the k-1 entries of    *)
(* the slabs before it, each decoded from the slab, then the "unlinked"    *)
(* flag; the reads of the list are those of these k-1 slabs and no other   *)
(* (none at address 1).                                                    *)
(***************************************************************************)
ReadsOfSlab(a, i) ==
    { <<a + AllocatedOff, WordSize>>, <<a + SlabHeaderSize, BitmapBytesOf(i)>>,
      <<a + NextOff, WordSize>> }

C2_UnlinkedMarker ==
    /\ Returned =>
         LET i == size_class_idx - 1
             l == ListOf(i)
             lines == LinesOf(i)
             slabs == SlabLinesOf(i)
         IN  l.end = "unlinked" =>
               /\ AddrsOf(slabs) = l.nodes
               /\ \A k \in 1 .. Len(slabs) :
                    /\ slabs[k].allocated = StoredCount(slabs[k].addr)
                    /\ slabs[k].in_bitmap = BitmapCount(slabs[k].addr, i)
               /\ Len(lines) >= 2
               /\ lines[Len(lines) - 1].kind = "unlinked"
               /\ Cardinality({ k \in 1 .. Len(lines) : lines[k].kind = "unlinked" }) = 1
               /\ list_reads = UNION { ReadsOfSlab(l.nodes[k], i) : k \in 1 .. Len(l.nodes) }
               /\ \A r \in list_reads : ~(r[1] <= 1 /\ 1 < r[1] + r[2])
    /\ ListReadFailed => ListOf(size_class_idx).end # "unlinked"

C2_Witness ==
    /\ Returned
    /\ ListOf(size_class_idx - 1).end = "unlinked"
    /\ Len(ListOf(size_class_idx - 1).nodes) = NumSlabs
    /\ HasLine(size_class_idx - 1, "unlinked")

(***************************************************************************)
(* C3.  As claimed: after a read failure in the list of size class i the   *)
(* size classes i+1 .. SIZE_CLASS_COUNT-1 are still reported.  The command *)
(* has stopped in the state this is evaluated in.                          *)
(***************************************************************************)
C3_Original ==
    ListReadFailed =>
        \A j \in size_class_idx + 1 .. SIZE_CLASS_COUNT - 1 : HasLine(j, "class")

(***************************************************************************)
(* C3, amended.  A failed read ends the whole command: MemoryError leaves  *)
(* invoke, no later size class is walked or reported and nothing more is   *)
(* printed, not even the blank line of the size class that failed.         *)
(***************************************************************************)
C3_ReadFailureEndsRun ==
    error = "MemoryError" =>
        /\ pc = "error"
        /\ ~ENABLED Next
        /\ \A k \in 1 .. Len(out) : out[k].idx <= size_class_idx
        /\ ~HasLine(size_class_idx, "blank")

C3_Witness ==
    /\ ListReadFailed
    /\ size_class_idx < SIZE_CLASS_COUNT - 1
    /\ Len(SlabLinesOf(size_class_idx)) >= 1
    /\ HeadOf(size_class_idx + 1) # 0

(***************************************************************************)
(* C4.  As claimed: every run of the command stops, whatever the image.    *)
(***************************************************************************)
C4_Original == <>Stopped

(***************************************************************************)
(* C4, amended.  On an image none of whose lists has a cycle, every run of *)
(* the command stops: it completes all size classes or ends on an error.   *)
(***************************************************************************)
NoCycle == \A i \in 0 .. SIZE_CLASS_COUNT - 1 : ListOf(i).end # "cycle"

C4_AcyclicTerminates == NoCycle => <>Stopped

C4_Witness ==
    /\ pc = "done"
    /\ NoCycle
    /\ \E i \in 0 .. SIZE_CLASS_COUNT - 1 : Len(SlabLinesOf(i)) = NumSlabs

(***************************************************************************)
(* C5.  The entry of a slab carries the "disagree" flag exactly if the     *)
(* stored counter differs from the number of 1 bits of the slab's bitmap   *)
(* bytes; the entry shows the stored counter and that number.              *)
(***************************************************************************)
C5_MismatchIff ==
    (pc = "next" /\ Len(LinesOf(size_class_idx)) < MaxClassLines) =>
        LET n == Len(out)
            stored == StoredCount(cur_slab_addr)
            m == BitmapCount(cur_slab_addr, size_class_idx)
            entry == SlabLine(size_class_idx, cur_slab_addr, stored, m)
        IN  IF stored # m
            THEN n >= 2 /\ out[n] = DisagreeLine(size_class_idx) /\ out[n - 1] = entry
            ELSE n >= 1 /\ out[n] = entry

C5_Witness ==
    /\ pc = "next"
    /\ Len(out) >= 2
    /\ out[Len(out)].kind = "disagree"
    /\ out[Len(out) - 1].in_bitmap = 2
    /\ out[Len(out) - 1].allocated = 1

C5_WitnessAgree ==
    /\ pc = "next"
    /\ Len(out) >= 1
    /\ out[Len(out)].kind = "slab"
    /\ out[Len(out)].in_bitmap = 2

(***************************************************************************)
(* C6.  A disagreeing slab does not end the walk: when the walk of a list  *)
(* that ends in the null link or in the marker returns, every slab after a *)
(* disagreeing one has its entry, and the disagreeing one has its flag.    *)
(***************************************************************************)
DisagreeFlagged(i, a) ==
    \E k \in 1 .. Len(out) - 1 :
        /\ out[k].kind = "slab" /\ out[k].idx = i /\ out[k].addr = a
        /\ out[k + 1] = DisagreeLine(i)

C6_MismatchContinues ==
    Returned =>
        LET i == size_class_idx - 1
            l == ListOf(i)
            addrs == AddrsOf(SlabLinesOf(i))
        IN  l.end \in {"null", "unlinked"} =>
              \A j \in 1 .. Len(l.nodes) :
                  StoredCount(l.nodes[j]) # BitmapCount(l.nodes[j], i) =>
                      /\ DisagreeFlagged(i, l.nodes[j])
                      /\ \A j2 \in j + 1 .. Len(l.nodes) :
                             \E k \in 1 .. Len(addrs) : addrs[k] = l.nodes[j2]

C6_Witness ==
    /\ Returned
    /\ LET i == size_class_idx - 1
           l == ListOf(i)
       IN  /\ l.end = "null"
           /\ Len(l.nodes) = NumSlabs
           /\ StoredCount(l.nodes[1]) # BitmapCount(l.nodes[1], i)
           /\ DisagreeFlagged(i, l.nodes[1])
           /\ Len(SlabLinesOf(i)) = NumSlabs

(***************************************************************************)
(* C7.  As claimed: when a name cannot be resolved, nothing has been       *)
(* printed when the lookup error ends the command.                         *)
(***************************************************************************)
C7_Original == error = "LookupError" => out = <<>>

(***************************************************************************)
(* C7, amended.  If the size-class type or the allocator symbol cannot be  *)
(* resolved, the command ends before anything is printed.  If only the     *)
(* slab-header type cannot be resolved, the command ends in the first call *)
(* of _print_slab_list, when exactly the header line of size class 0 has   *)
(* been printed, and no slab entry.                                        *)
(***************************************************************************)
TableResolvable ==
    /\ "kernel::mm::heap::SizeClass" \in resolvable
    /\ "kernel::mm::heap::ALLOCATOR" \in resolvable
SlabHeaderResolvable == "kernel::mm::heap::SlabHeader" \in resolvable

C7_LookupFailure ==
    /\ ~TableResolvable => pc \in {"invoke", "error"} /\ out = <<>>
    /\ ~SlabHeaderResolvable =>
         /\ pc \in {"invoke", "for", "call", "error"}
         /\ size_class_idx = 0
         /\ \A k \in 1 .. Len(out) : out[k].kind = "class"
    /\ error = "LookupError" =>
         /\ pc = "error"
         /\ ~TableResolvable \/ ~SlabHeaderResolvable
         /\ TableResolvable => out = <<ClassLine(0, metadata)>>

C7_Witness ==
    /\ error = "LookupError"
    /\ TableResolvable
    /\ out = <<ClassLine(0, metadata)>>

(***************************************************************************)
(* C8.  As claimed: a link that is neither 0 nor the address of a readable *)
(* slab header is not followed, so every read of a list is a read of the   *)
(* counter, the bitmap or the link of an aligned, readable slab header.    *)
(***************************************************************************)
ValidSlab(a) == a % WordSize = 0 /\ Readable(memory, a, SlabHeaderSize)

C8_Original ==
    \A r \in list_reads :
        \E a \in { r[1] - AllocatedOff, r[1] - SlabHeaderSize, r[1] - NextOff } :
            ValidSlab(a)

(***************************************************************************)
(* C8, amended.  Only the value 1 is taken for the marker.  Every other    *)
(* non-null link, valid or not, is followed: the walker goes on to read    *)
(* the counter at that value plus the counter's offset.  At the value 1    *)
(* it reads nothing and leaves the list.                                   *)
(***************************************************************************)
C8_OnlyOneIsMarker ==
    [][ /\ (pc = "while" /\ cur_slab_addr \notin {0, 1}) =>
             (pc' = "slab" /\ cur_slab_addr' = cur_slab_addr /\ out' = out)
        /\ pc = "slab" =>
             (<<cur_slab_addr + AllocatedOff, WordSize>> \in list_reads'
              /\ ~ValidSlab(cur_slab_addr) => pc' = "error")
        /\ (pc = "while" /\ cur_slab_addr = 1) =>
             (pc' \in {"for", "done"} /\ list_reads' = list_reads) ]_vars

C8_Witness ==
    /\ ListReadFailed
    /\ cur_slab_addr = 3
    /\ <<cur_slab_addr + AllocatedOff, WordSize>> \in list_reads

(***************************************************************************)
(* C9.  The header lines printed are those of the size classes 0, 1, 2 ... *)
(* in this order, one each; a run that ends without an error has printed   *)
(* SIZE_CLASS_COUNT reports, each a header line, its entries and a blank   *)
(* line; the marker in the list of a size class is no error of the run.    *)
(***************************************************************************)
C9_AllClassesInOrder ==
    /\ LET headers == HeaderLines
       IN  \A j \in 1 .. Len(headers) : headers[j].idx = j - 1
    /\ \A k \in 1 .. Len(out) - 1 : out[k].idx <= out[k + 1].idx
    /\ pc = "done" =>
         /\ error = "none"
         /\ Len(HeaderLines) = SIZE_CLASS_COUNT
         /\ \A i \in 0 .. SIZE_CLASS_COUNT - 1 :
              LET lines == LinesOf(i)
              IN  /\ Len(lines) >= 2
                  /\ lines[1].kind = "class"
                  /\ lines[Len(lines)].kind = "blank"
                  /\ \A k \in 2 .. Len(lines) - 1 : lines[k].kind \notin {"class", "blank"}
    /\ \A i \in 0 .. SIZE_CLASS_COUNT - 1 :
         HasLine(i, "unlinked") => (pc = "error" => size_class_idx > i)

C9_Witness ==
    /\ pc = "done"
    /\ Len(HeaderLines) = SIZE_CLASS_COUNT
    /\ HasLine(0, "unlinked")
    /\ HasLine(0, "disagree")
    /\ Len(SlabLinesOf(1)) = 1

(***************************************************************************)
(* C10.  The bitmap size _print_slab_list computes for objects_per_slab =  *)
(* k is ceil(k / 8): the least n with 8 * n >= k.                          *)
(***************************************************************************)
C10_BitmapSizeIsCeil ==
    pc = "while" =>
        /\ 8 * bitmap_size >= metadata.objects_per_slab
        /\ \A n \in 0 .. bitmap_size - 1 : 8 * n < metadata.objects_per_slab

C10_Witness ==
    /\ pc = "while"
    /\ metadata.objects_per_slab = 9
    /\ bitmap_size = 2

(***************************************************************************)
(* C11.  count_set_bits is additive and independent of the order of the    *)
(* bytes: its result on a sequence is the sum of its results on the two    *)
(* parts of every split of the sequence, it is its result on every         *)
(* permutation of the sequence, and it is 0 on the empty sequence.         *)
(***************************************************************************)
Permuted(bs, f) == [k \in 1 .. Len(bs) |-> bs[f[k]]]

C11_AdditiveAnyOrder ==
    pc = "count_set_bits_return" =>
        /\ \A n \in 0 .. Len(bitmap) :
               count_set_bits(SubSeq(bitmap, 1, n))
                 + count_set_bits(SubSeq(bitmap, n + 1, Len(bitmap)))
               = bitmap_allocated_objs
        /\ \A f \in Permutations(1 .. Len(bitmap)) :
               count_set_bits(Permuted(bitmap, f)) = bitmap_allocated_objs
        /\ bitmap = <<>> => bitmap_allocated_objs = 0

C11_Witness ==
    /\ pc = "count_set_bits_return"
    /\ bitmap = <<3, 0, 255>>
    /\ bitmap_allocated_objs = 10

(***************************************************************************)
(* C15.  For a byte b, the loop of count_int_bits clears exactly the       *)
(* lowest set bit of b in each iteration, runs as many iterations as b has *)
(* 1 bits (at most 8) and returns that number.                             *)
(***************************************************************************)
\* the value of the lowest 1 bit of x > 0
LowestBit(x) == CHOOSE q \in { 2 ^ k : k \in 0 .. 7 } : x % (2 * q) = q

RECURSIVE WithoutLowestBits(_, _)
WithoutLowestBits(x, n) ==
    IF n = 0 THEN x ELSE WithoutLowestBits(x - LowestBit(x), n - 1)

C15_CountIntBits ==
    pc \in {"count_int_bits", "count_int_bits_return"} =>
        LET v == bitmap[1]
        IN  /\ cib_count <= PopCount(v)
            /\ cib_b = WithoutLowestBits(v, cib_count)
            /\ cib_count + PopCount(cib_b) = PopCount(v)
            /\ pc = "count_int_bits_return" =>
                 /\ cib_count = PopCount(v)
                 /\ cib_count = count_int_bits(v)

C15_Witness ==
    /\ pc = "count_int_bits_return"
    /\ bitmap = <<255>>
    /\ cib_count = 8

(***************************************************************************)
(* C12.  No step of the command changes the target's memory, whether the   *)
(* run completes, stops a list at the marker or is ended by an error.      *)
(***************************************************************************)
C12_MemoryUnchanged == [][memory' = memory]_vars

C12_Witness ==
    /\ ListReadFailed
    /\ Cardinality(list_reads) >= 4
    /\ HasLine(size_class_idx - 1, "unlinked") \/ HasLine(size_class_idx - 1, "blank")

(***************************************************************************)
(* C13.  When the read of the counter or of the bitmap of the j-th slab of *)
(* a list fails, the entries of slabs 1 .. j-1 have been printed, each     *)
(* decoded from its slab, there is no entry for slab j, and no read was    *)
(* made past the failing one: not the bitmap after a failed counter, not   *)
(* the link of slab j, no later slab.  An entry is printed only for a slab *)
(* whose counter and whole bitmap have both been read.                     *)
(***************************************************************************)
CounterRead(a) == <<a + AllocatedOff, WordSize>>
BitmapRead(a, i) == <<a + SlabHeaderSize, BitmapBytesOf(i)>>
LinkRead(a) == <<a + NextOff, WordSize>>

CounterUnreadable == ~Readable(memory, cur_slab_addr + AllocatedOff, WordSize)
BitmapUnreadable ==
    ~Readable(memory, cur_slab_addr + SlabHeaderSize, BitmapBytesOf(size_class_idx))
DecodeFailed == ListReadFailed /\ (CounterUnreadable \/ BitmapUnreadable)

C13_FailedDecode ==
    /\ DecodeFailed =>
         LET i == size_class_idx
             l == ListOf(i)
             slabs == SlabLinesOf(i)
             j == Len(l.nodes) + 1
         IN  /\ l.end = "unreadable"
             /\ cur_slab_addr = IF j = 1 THEN HeadOf(i)
                                ELSE read_u64(memory, l.nodes[j - 1] + NextOff)
             /\ Len(slabs) = j - 1
             /\ \A k \in 1 .. j - 1 :
                    slabs[k] = SlabLine(i, l.nodes[k], StoredCount(l.nodes[k]),
                                        BitmapCount(l.nodes[k], i))
             /\ \A k \in 1 .. Len(out) : out[k].kind = "slab" => out[k].addr # cur_slab_addr
             /\ list_reads \subseteq
                  UNION { ReadsOfSlab(l.nodes[k], i) : k \in 1 .. j - 1 }
                  \cup {CounterRead(cur_slab_addr), BitmapRead(cur_slab_addr, i)}
             /\ CounterRead(cur_slab_addr) \in list_reads
             /\ CounterUnreadable => BitmapRead(cur_slab_addr, i) \notin list_reads
             /\ LinkRead(cur_slab_addr) \notin list_reads
    /\ (InList \/ ListReadFailed) =>
         LET slabs == SlabLinesOf(size_class_idx)
         IN  \A k \in 1 .. Len(slabs) :
                /\ CounterRead(slabs[k].addr) \in list_reads
                /\ BitmapRead(slabs[k].addr, size_class_idx) \in list_reads
                /\ Readable(memory, slabs[k].addr + AllocatedOff, WordSize)
                /\ Readable(memory, slabs[k].addr + SlabHeaderSize,
                            BitmapBytesOf(size_class_idx))

C13_Witness ==
    /\ DecodeFailed
    /\ ~CounterUnreadable
    /\ BitmapRead(cur_slab_addr, size_class_idx) \in list_reads
    /\ Len(SlabLinesOf(size_class_idx)) = NumSlabs - 1

(***************************************************************************)
(* C14.  The bitmap read of the slab at a, in a size class of k objects    *)
(* per slab, covers exactly the ceil(k / 8) bytes that follow the header:  *)
(* it starts at a + SlabHeaderSize, no byte of the header is in it, and no *)
(* byte of the slab past the last bitmap byte is read at all.  The bytes   *)
(* counted are those bytes of the target.  For k = 0 the read is empty and *)
(* the count is 0.                                                         *)
(***************************************************************************)
Covered(r) == r[1] .. r[1] + r[2] - 1
CeilDiv8(k) == CHOOSE n \in 0 .. k : 8 * n >= k /\ 8 * (n - 1) < k

C14_BitmapReadExtent ==
    pc = "next" =>
        LET a == cur_slab_addr
            k == metadata.objects_per_slab
            n == CeilDiv8(k)
            header == a .. a + SlabHeaderSize - 1
            extent == a + SlabHeaderSize .. a + SlabHeaderSize + n - 1
            reads == { r \in list_reads : r[1] >= a /\ r[1] < a + SlabHeaderSize + n + WordSize }
        IN  /\ <<a + SlabHeaderSize, n>> \in list_reads
            /\ \A r \in reads :
                  \/ r = <<a + SlabHeaderSize, n>>
                  \/ Covered(r) \subseteq header
            /\ Covered(<<a + SlabHeaderSize, n>>) = extent
            /\ extent \cap header = {}
            /\ bitmap = [j \in 1 .. n |-> Byte(memory, a + SlabHeaderSize + j - 1)]
            /\ bitmap_allocated_objs = SumPopCount(a + SlabHeaderSize, n)
            /\ k = 0 => bitmap = <<>> /\ bitmap_allocated_objs = 0

C14_Witness ==
    /\ pc = "next"
    /\ metadata.objects_per_slab = MaxObjs
    /\ Len(bitmap) = CeilDiv8(MaxObjs)
    /\ bitmap[Len(bitmap)] # 0

C14_WitnessEmpty ==
    /\ pc = "next"
    /\ metadata.objects_per_slab = 0
    /\ allocated_objs > 0

(***************************************************************************)
(* The command beside a running target.  The allocator of the kernel       *)
(* (kernel::mm::heap) takes an object from, or gives one back to, the slab *)
(* at the head of a size class's list: the slot's bit in the bitmap and    *)
(* the stored counter change together, in one step.  The command does not  *)
(* stop the target, so allocator steps fall between its reads.  `held` is  *)
(* the history of the slabs' contents: one record for each slab of the     *)
(* starting image, then one for each allocator step.                       *)
(***************************************************************************)
\* the memory with the bytes bs at a, a + 1, ...
StoreBytes(mem, a, bs) ==
    LET old == mem.bytes
        range == a .. a + Len(bs) - 1
        dom == (DOMAIN old \ range) \cup { x \in range : bs[x - a + 1] # 0 }
    IN  [mem EXCEPT !.bytes = [x \in dom |-> IF x \in range THEN bs[x - a + 1] ELSE old[x]]]

\* v.to_bytes(8, "little") stored at a
StoreU64(mem, a, v) == StoreBytes(mem, a, [k \in 1 .. WordSize |-> ByteOfWord(v, k - 1)])

RECURSIVE SumOfPopCounts(_)
SumOfPopCounts(bs) ==
    IF bs = <<>> THEN 0 ELSE PopCount(Head(bs)) + SumOfPopCounts(Tail(bs))

\* counter and bitmap population of the slab at a, of size class i, in mem
SnapshotIn(mem, i, a) ==
    [step |-> 0,
     slab |-> a,
     allocated |-> read_u64(mem, a + AllocatedOff),
     in_bitmap |-> SumOfPopCounts(read_memory(mem, a + SlabHeaderSize, BitmapBytesOf(i)))]

RECURSIVE SnapshotsFrom(_)
SnapshotsFrom(i) ==
    IF i = SIZE_CLASS_COUNT THEN <<>>
    ELSE LET nodes == ListOf(i).nodes
         IN  [k \in 1 .. Len(nodes) |-> SnapshotIn(memory, i, nodes[k])]
             \o SnapshotsFrom(i + 1)

Consistent(h) == h.allocated = h.in_bitmap

\* the images whose slabs are in the list of the last size class
LiveImages ==
    { p \in Images : /\ p.focus = SIZE_CLASS_COUNT - 1
                     /\ ~p.rest /\ p.cut = "none" /\ p.term # "cycle" }

LiveInit ==
    /\ InitOn(LiveImages, {Names})
    /\ held = SnapshotsFrom(0)
    /\ \A k \in 1 .. Len(held) : Consistent(held[k])

\* size class i has a slab at the head of its list
HasHeadSlab(i) == HeadOf(i) \notin {0, 1} /\ SlabReadable(HeadOf(i), BitmapBytesOf(i))

\* the number of allocator steps so far
StepsTaken == IF held = <<>> THEN 0 ELSE held[Len(held)].step

\* Allocator steps are taken while a list is being walked: a step before
\* the walk gives the walk another starting image, a step after it is not seen.
AllocatorMayStep ==
    /\ InList
    /\ StepsTaken < MaxAllocatorSteps

SlotByteAddr(a, slot) == a + SlabHeaderSize + slot \div 8
SlotBit(slot) == 2 ^ (slot % 8)
SlotTaken(a, slot) == (Byte(memory, SlotByteAddr(a, slot)) \div SlotBit(slot)) % 2 = 1

\* the allocator takes free slot `slot` of the head slab of size class i
Allocate(i, slot) ==
    /\ AllocatorMayStep
    /\ HasHeadSlab(i)
    /\ slot < ObjsOf(i)
    /\ ~SlotTaken(HeadOf(i), slot)
    /\ LET a == HeadOf(i)
           marked == StoreByte(memory, SlotByteAddr(a, slot),
                               Byte(memory, SlotByteAddr(a, slot)) + SlotBit(slot))
       IN  /\ memory' = StoreU64(marked, a + AllocatedOff, StoredCount(a) + 1)
           /\ held' = Append(held, [SnapshotIn(memory', i, a) EXCEPT !.step = StepsTaken + 1])
    /\ UNCHANGED <<resolvable, pc, error, size_class_idx, metadata, cur_slab_addr,
                   bitmap_size, allocated_objs, bitmap, bitmap_allocated_objs, out,
                   list_reads, cib_b, cib_count>>

\* the allocator gets taken slot `slot` of the head slab of size class i back
Deallocate(i, slot) ==
    /\ AllocatorMayStep
    /\ HasHeadSlab(i)
    /\ slot < ObjsOf(i)
    /\ SlotTaken(HeadOf(i), slot)
    /\ LET a == HeadOf(i)
           cleared == StoreByte(memory, SlotByteAddr(a, slot),
                                Byte(memory, SlotByteAddr(a, slot)) - SlotBit(slot))
       IN  /\ memory' = StoreU64(cleared, a + AllocatedOff, StoredCount(a) - 1)
           /\ held' = Append(held, [SnapshotIn(memory', i, a) EXCEPT !.step = StepsTaken + 1])
    /\ UNCHANGED <<resolvable, pc, error, size_class_idx, metadata, cur_slab_addr,
                   bitmap_size, allocated_objs, bitmap, bitmap_allocated_objs, out,
                   list_reads, cib_b, cib_count>>

\* the size classes the allocator can act on in this state
HeadSlabClasses ==
    IF AllocatorMayStep THEN { i \in 0 .. SIZE_CLASS_COUNT - 1 : HasHeadSlab(i) } ELSE {}

LiveNext ==
    \/ Next
    \/ \E i \in HeadSlabClasses, slot \in 0 .. MaxSlots - 1 : Allocate(i, slot)
    \/ \E i \in HeadSlabClasses, slot \in 0 .. MaxSlots - 1 : Deallocate(i, slot)

LiveSpec == LiveInit /\ [][LiveNext]_vars

(***************************************************************************)
(* C16.  As claimed: beside an allocator that changes counter and bitmap   *)
(* together, a slab is flagged only if it has held, in some state of the   *)
(* target during the invocation, a counter that differs from the           *)
(* population of its bitmap.                                               *)
(***************************************************************************)
Flagged(k) == k < Len(out) /\ out[k + 1].kind = "disagree"

C16_Original ==
    \A k \in 1 .. Len(out) :
        (out[k].kind = "slab" /\ Flagged(k)) =>
            \E j \in 1 .. Len(held) : held[j].slab = out[k].addr /\ ~Consistent(held[j])

(***************************************************************************)
(* C16.  Beside an allocator that changes counter and bitmap together,     *)
(* counter and bitmap population agree in every state of the target, and   *)
(* the command reads them in two reads with allocator steps in between:    *)
(* the counter of an entry is one the slab has held, its bitmap population *)
(* is one the slab has held then or later, not always in the same state,   *)
(* and the slab is flagged exactly when the two numbers read differ.       *)
(***************************************************************************)
C16_RacyReport ==
    /\ \A j \in 1 .. Len(held) : Consistent(held[j])
    /\ \A k \in 1 .. Len(out) :
          out[k].kind = "slab" =>
              /\ \E j1 \in 1 .. Len(held), j2 \in 1 .. Len(held) :
                    /\ j1 <= j2
                    /\ held[j1].slab = out[k].addr
                    /\ held[j1].allocated = out[k].allocated
                    /\ held[j2].slab = out[k].addr
                    /\ held[j2].in_bitmap = out[k].in_bitmap
              /\ Flagged(k) <=> out[k].allocated # out[k].in_bitmap

C16_Witness ==
    /\ pc = "done"
    /\ StepsTaken >= 1
    /\ \A j \in 1 .. Len(held) : Consistent(held[j])
    /\ \E k \in 1 .. Len(out) :
          /\ out[k].kind = "slab"
          /\ Flagged(k)
          /\ out[k].in_bitmap = out[k].allocated + 1

====
